---- MODULE Spec2Model ----
(***************************************************************************)
(* A model of gn's Xcode project writer (src/gn/xcode_writer.cc): the      *)
(* pipeline XcodeWriter::RunAndWriteFiles (sources, targets, ids, files)   *)
(* and the XCTest file resolver.                                           *)
(*                                                                         *)
(* Strings (target names, paths, patterns) are sequences of letters of a   *)
(* small alphabet; a letter is written as a TLA+ string ("foo", "_module", *)
(* ".m", "/").  Suffix tests, prefix tests and orderings are computed on   *)
(* these sequences, letter by letter, as the code does on characters.      *)
(***************************************************************************)
EXTENDS Integers, Sequences, FiniteSets, TLC

VARIABLES
  pc,          \* position of RunAndWriteFiles, or "resolver" for the resolver runs
  builder,     \* the resolved build graph: target (pointer) -> Target
  options,     \* XcodeWriter::Options and the build arguments
  project,     \* XcodeProject::project_ (the PBXProject object tree)
  bundle_targets, \* the keys of AddTargetsFromBuilder's map, in iteration order
  err,         \* *err
  disk,        \* what this run found and did on the three output files
  cache_,      \* XCTestFilesResolver::cache_
  scans,       \* target -> how many times its sources() were scanned
  lastCall,    \* the last SearchFilesForTarget call: its argument and result
  lookups      \* how many calls of FindApplicationTargetByName each step made

vars == <<pc, builder, options, project, bundle_targets, err, disk, cache_,
          scans, lastCall, lookups>>

-----------------------------------------------------------------------------
(* Bounds of the model.                                                    *)

\* at most this many targets in a build graph handed to RunAndWriteFiles
MaxTargets == 3
\* number of targets in the dependency graphs handed to the resolver
NumNodes == 4

-----------------------------------------------------------------------------
(* Strings.                                                                *)

\* the letters, in ascending order (std::string compares letter by letter)
Alphabet ==
  << "*", ".bak", ".cc", ".gn", ".m", "/", "//", "2", ":", "BUILD", "_module",
     "_runner", "a", "app_", "b", "bar", "c", "data", "egtest", "foo", "host",
     "lib", "m", "main", "nohost", "out", "res", "tc", "thing_", "tool", "tool2",
     "ui", "util", "x", "xctest" >>

RankOf == [c \in {Alphabet[i] : i \in 1..Len(Alphabet)} |->
             CHOOSE i \in 1..Len(Alphabet) : Alphabet[i] = c]

Rank(c) == RankOf[c]

Min(a, b) == IF a < b THEN a ELSE b

\* operator< of std::string
StrLess(s, t) ==
  \E i \in 1..(Min(Len(s), Len(t)) + 1) :
    /\ \A j \in 1..(i - 1) : s[j] = t[j]
    /\ \/ i > Len(s) /\ i <= Len(t)
       \/ i <= Len(s) /\ i <= Len(t) /\ Rank(s[i]) < Rank(t[i])

\* base::EndsWith(s, suffix, SENSITIVE)
EndsWith(s, suffix) ==
  /\ Len(suffix) <= Len(s)
  /\ SubSeq(s, Len(s) - Len(suffix) + 1, Len(s)) = suffix

StartsWith(s, prefix) ==
  /\ Len(prefix) <= Len(s)
  /\ SubSeq(s, 1, Len(prefix)) = prefix

\* the elements of a sequence
Range(s) == {s[i] : i \in 1..Len(s)}

\* the sequences that list each element of the finite set S exactly once
RECURSIVE Perms(_)
Perms(S) ==
  IF S = {} THEN {<<>>}
  ELSE UNION {{<<x>> \o p : p \in Perms(S \ {x})} : x \in S}

\* the numbers of S in ascending order
RECURSIVE Ascending(_)
Ascending(S) ==
  IF S = {} THEN <<>>
  ELSE LET m == CHOOSE x \in S : \A y \in S : x <= y
       IN <<m>> \o Ascending(S \ {m})

\* std::sort of a set of strings (SourceFile::operator< compares the values)
RECURSIVE InsertString(_, _)
InsertString(x, sorted) ==
  IF sorted = <<>> THEN <<x>>
  ELSE IF StrLess(x, Head(sorted)) THEN <<x>> \o sorted
  ELSE <<Head(sorted)>> \o InsertString(x, Tail(sorted))

RECURSIVE SortStrings(_)
SortStrings(S) ==
  IF S = {} THEN <<>>
  ELSE LET x == CHOOSE y \in S : TRUE
       IN InsertString(x, SortStrings(S \ {x}))

-----------------------------------------------------------------------------
(* Constants of xcode_writer.cc.                                           *)

kXCTestFileSuffixes ==
  << <<"egtest", ".m">>, <<"egtest", ".m", "m">>,
     <<"xctest", ".m">>, <<"xctest", ".m", "m">> >>

kXCTestModuleTargetNamePostfix == <<"_module">>
kXCUITestRunnerTargetNamePostfix == <<"_runner">>

kApplication == "com.apple.product-type.application"
kUnitTest == "com.apple.product-type.bundle.unit-test"
kUITesting == "com.apple.product-type.bundle.ui-testing"
kTool == "com.apple.product-type.tool"
kFramework == "com.apple.product-type.framework"

OutputFiles ==
  {"project.pbxproj", "contents.xcworkspacedata", "WorkspaceSettings.xcsettings"}

-----------------------------------------------------------------------------
(* Targets of the build graph (gn's Target), as the writer reads them.     *)

Target(dir, name, toolchain, type, ptype, host, srcs, pub, priv, data, odir, tool) ==
  [ label |-> [dir |-> dir, name |-> name, toolchain |-> toolchain],
    is_default |-> (toolchain = <<"//", "tc">>),   \* settings()->is_default()
    output_type |-> type,
    product_type |-> ptype,
    xcode_test_application_name |-> host,
    sources |-> srcs,
    public_deps |-> pub,
    private_deps |-> priv,
    data_deps |-> data,
    output_dir |-> odir,
    has_tool |-> tool ]

DefaultTc == <<"//", "tc">>
OtherTc == <<"//", "tc", "2">>

\* Label::operator<
LabelLess(l, r) ==
  \/ StrLess(l.dir, r.dir)
  \/ l.dir = r.dir /\ StrLess(l.name, r.name)
  \/ l.dir = r.dir /\ l.name = r.name /\ StrLess(l.toolchain, r.toolchain)

\* Label::GetUserVisibleName(false)
GetUserVisibleName(l) == l.dir \o <<":">> \o l.name

\* Target::GetDeps(DEPS_LINKED): the public, then the private dependencies
LinkedDeps(t) == t.public_deps \o t.private_deps

-----------------------------------------------------------------------------
(* Predicates on targets and files.                                        *)

\* GetTargetOs without its "tvos" case
GetTargetOsWithoutTvos(args) ==
  IF args.target_os.set /\ args.target_os.type = "STRING"
     /\ args.target_os.value = <<"ios">>
  THEN "WRITER_TARGET_OS_IOS"
  ELSE "WRITER_TARGET_OS_MACOS"

\* GetTargetOs: the target_os override, when it is the string "ios" or "tvos"
GetTargetOs(args) ==
  IF args.target_os.set /\ args.target_os.type = "STRING"
  THEN IF args.target_os.value = <<"ios">> THEN "WRITER_TARGET_OS_IOS"
       ELSE IF args.target_os.value = <<"tvos">> THEN "WRITER_TARGET_OS_TVOS"
       ELSE "WRITER_TARGET_OS_MACOS"
  ELSE "WRITER_TARGET_OS_MACOS"

IsApplicationTarget(t) ==
  t.output_type = "CREATE_BUNDLE" /\ t.product_type = kApplication

\* IsXCUITestRunnerTarget testing the module postfix instead of the runner's
IsXCUITestRunnerTargetModulePostfix(t) ==
  IsApplicationTarget(t) /\ EndsWith(t.label.name, kXCTestModuleTargetNamePostfix)

IsXCUITestRunnerTarget(t) ==
  IsApplicationTarget(t) /\ EndsWith(t.label.name, kXCUITestRunnerTargetNamePostfix)

IsXCTestModuleTarget(t) ==
  /\ t.output_type = "CREATE_BUNDLE"
  /\ t.product_type = kUnitTest
  /\ EndsWith(t.label.name, kXCTestModuleTargetNamePostfix)

IsXCUITestModuleTarget(t) ==
  /\ t.output_type = "CREATE_BUNDLE"
  /\ t.product_type = kUITesting
  /\ EndsWith(t.label.name, kXCTestModuleTargetNamePostfix)

\* SourceFile::GetName: what follows the last separator of the path
GetName(file) ==
  LET seps == {i \in 1..Len(file) : file[i] \in {"/", "//"}}
      last == IF seps = {} THEN 0 ELSE CHOOSE i \in seps : \A j \in seps : j <= i
  IN SubSeq(file, last + 1, Len(file))

\* IsXCTestFile that stops before the last suffix of the table
IsXCTestFileShortLoop(file) ==
  \E i \in 1..(Len(kXCTestFileSuffixes) - 1) :
    EndsWith(GetName(file), kXCTestFileSuffixes[i])

IsXCTestFile(file) ==
  \E i \in 1..Len(kXCTestFileSuffixes) : EndsWith(GetName(file), kXCTestFileSuffixes[i])

-----------------------------------------------------------------------------
(* XCTestFilesResolver.  A resolver state is [cache, scans, result]: the   *)
(* cache_ map, the number of times each target's sources were scanned, and *)
(* the set the last call returned.                                         *)

RECURSIVE SearchFilesForTarget(_, _, _)
RECURSIVE SearchDeps(_, _, _, _)

\* one of the two loops over dependencies: each result is inserted into
\* xctest_files (here acc)
SearchDeps(B, st, deps, acc) ==
  IF deps = <<>> THEN [st EXCEPT !.result = acc]
  ELSE LET r == SearchFilesForTarget(B, st, Head(deps))
       IN SearchDeps(B, r, Tail(deps), acc \cup r.result)

\* SearchFilesForTarget without the early return on a cache hit
SearchFilesForTargetUncached(B, st, target) ==
  LET own == {f \in Range(B[target].sources) : IsXCTestFile(f)}
      s0 == [st EXCEPT !.scans[target] = @ + 1]
      s1 == SearchDeps(B, s0, B[target].public_deps, own)
      s2 == SearchDeps(B, s1, B[target].private_deps, s1.result)
  IN [ cache |-> s2.cache @@ (target :> s2.result),
       scans |-> s2.scans,
       result |-> s2.result ]

SearchFilesForTarget(B, st, target) ==
  IF target \in DOMAIN st.cache
  THEN [st EXCEPT !.result = st.cache[target]]
  ELSE LET own == {f \in Range(B[target].sources) : IsXCTestFile(f)}
           s0 == [st EXCEPT !.scans[target] = @ + 1]
           s1 == SearchDeps(B, s0, B[target].public_deps, own)
           s2 == SearchDeps(B, s1, B[target].private_deps, s1.result)
       IN [ cache |-> s2.cache @@ (target :> s2.result),
            scans |-> s2.scans,
            result |-> s2.result ]

\* a resolver that was just constructed, for the graph B
NewResolver(B) ==
  [cache |-> <<>>, scans |-> [t \in DOMAIN B |-> 0], result |-> {}]

-----------------------------------------------------------------------------
(* Errors.  An Err carries its message, the names the message text         *)
(* contains, and the target whose definition (ParseNode) it points at.     *)

NoErr == [message |-> "", mentions |-> {}, node |-> 0]

MakeErr(message, mentions, node) ==
  [message |-> message, mentions |-> mentions, node |-> node]

-----------------------------------------------------------------------------
(* The PBXProject object tree: the indexing file list, and the native      *)
(* targets in the order they were added.                                   *)

\* PBXProject's constructor, and the "All" aggregate target
NewProject(opts) ==
  [ name |-> opts.project_name,
    sdkroot |-> CASE GetTargetOs(opts) = "WRITER_TARGET_OS_IOS" -> "iphoneos"
                  [] GetTargetOs(opts) = "WRITER_TARGET_OS_TVOS" -> "appletvos"
                  [] OTHER -> "macosx",
    aggregates |-> <<>>,
    indexing |-> <<>>,
    targets |-> <<>>,
    ids |-> <<>>,
    ids_assigned |-> FALSE ]

\* RebasePath(path, SourceDir("//"), root): a source-absolute path loses its "//"
RebasePath(path) == IF path # <<>> /\ Head(path) = "//" THEN Tail(path) ELSE path

\* PBXProject::AddNativeTarget
AddNativeTarget(proj, native) == [proj EXCEPT !.targets = Append(@, native)]

\* the native target that was created for the build-graph target |target|
NativeOf(proj, target) ==
  CHOOSE i \in 1..Len(proj.targets) : proj.targets[i].target = target

\* PBXProject::AddSourceFile(path, path, flag, native_target)
AddSourceFile(proj, path, flag, n) ==
  [proj EXCEPT !.targets[n].sources = Append(@, [path |-> path, flag |-> flag])]

RECURSIVE AddXCTestFilesToTestModuleTarget(_, _, _)
AddXCTestFilesToTestModuleTarget(sources, n, proj) ==
  IF sources = <<>> THEN proj
  ELSE AddXCTestFilesToTestModuleTarget(
         Tail(sources), n, AddSourceFile(proj, RebasePath(Head(sources)), "HELP", n))

\* AddPBXTargetDependency with its two targets exchanged
AddPBXTargetDependencyExchanged(proj, base, dependent) ==
  [proj EXCEPT !.targets[base].dependencies = Append(@, dependent)]

\* AddPBXTargetDependency: |dependent| gets a dependency (with its container
\* item proxy) on |base|; both are positions in the project's target list
AddPBXTargetDependency(proj, base, dependent) ==
  [proj EXCEPT !.targets[dependent].dependencies = Append(@, base)]

-----------------------------------------------------------------------------
(* The target classifier: XcodeProject::GetTargetsFromBuilder.             *)

\* LabelPattern of a filter: "//<dir>/*" is well formed, and matches the
\* targets of that directory
PatternOk(p) == Len(p) = 4 /\ p[1] = "//" /\ p[3] = "/" /\ p[4] = "*"

PatternMatches(p, label) == label.dir = <<p[1], p[2]>>

\* commands::FilterPatternsFromString
FilterPatternsFromString(filters) == \A i \in 1..Len(filters) : PatternOk(filters[i])

\* commands::FilterTargetsByPatterns: keeps the order of its input
FilterTargetsByPatterns(B, all, filters) ==
  SelectSeq(all, LAMBDA t : \E i \in 1..Len(filters) : PatternMatches(filters[i], B[t].label))

\* the erasing loop reading the public dependencies only
ErasedExecutablesPublicOnly(B, all_targets) ==
  { d \in DOMAIN B :
      \E i \in 1..Len(all_targets) :
        LET target == B[all_targets[i]]
        IN /\ target.is_default
           /\ target.output_type = "BUNDLE_DATA"
           /\ d \in Range(target.public_deps)
           /\ B[d].output_type = "EXECUTABLE" }

\* the EXECUTABLE targets the loop over |all_targets| erases from the set
ErasedExecutables(B, all_targets) ==
  { d \in DOMAIN B :
      \E i \in 1..Len(all_targets) :
        LET target == B[all_targets[i]]
        IN /\ target.is_default
           /\ target.output_type = "BUNDLE_DATA"
           /\ d \in Range(LinkedDeps(target))
           /\ B[d].output_type = "EXECUTABLE" }

\* std::sort of the targets per label
RECURSIVE InsertTarget(_, _, _)
InsertTarget(B, x, sorted) ==
  IF sorted = <<>> THEN <<x>>
  ELSE IF LabelLess(B[x].label, B[Head(sorted)].label) THEN <<x>> \o sorted
  ELSE <<Head(sorted)>> \o InsertTarget(B, x, Tail(sorted))

\* the targets left in the order of the std::set they are copied from
SortTargetsNot(B, S) == Ascending(S)

RECURSIVE SortTargets(_, _)
SortTargets(B, S) ==
  IF S = {} THEN <<>>
  ELSE LET x == CHOOSE y \in S : TRUE
       IN InsertTarget(B, x, SortTargets(B, S \ {x}))

\* [ok, targets, err]; all_targets is builder.GetAllResolvedTargets()
GetTargetsFromBuilder(B, all_targets, opts) ==
  IF opts.dir_filters_string # <<>> /\ ~FilterPatternsFromString(opts.dir_filters_string)
  THEN [ ok |-> FALSE, targets |-> <<>>,
         err |-> MakeErr("invalid filter pattern", Range(opts.dir_filters_string), 0) ]
  ELSE LET all == IF opts.dir_filters_string # <<>>
                  THEN FilterTargetsByPatterns(B, all_targets, opts.dir_filters_string)
                  ELSE all_targets
           targets == Range(all) \ ErasedExecutables(B, all)
       IN [ok |-> TRUE, targets |-> SortTargets(B, targets), err |-> NoErr]

-----------------------------------------------------------------------------
(* XcodeProject::AddTargetsFromBuilder and what it calls.                  *)

NativeTarget(target, name, product_type, attributes) ==
  [ target |-> target,
    name |-> name,
    product_type |-> product_type,
    attributes |-> attributes,
    sources |-> <<>>,
    dependencies |-> <<>> ]

\* AddBinaryTarget that does not ask the toolchain for the link tool
AddBinaryTargetUnchecked(B, t, opts, proj) ==
  [ ok |-> TRUE,
    project |-> AddNativeTarget(proj, NativeTarget(t, B[t].label.name, kTool, {})),
    err |-> NoErr ]

\* [ok, project, err]
AddBinaryTarget(B, t, opts, proj) ==
  IF B[t].output_dir = <<>> /\ ~B[t].has_tool
  THEN [ ok |-> FALSE, project |-> proj,
         err |-> MakeErr("link tool not defined",
                         { B[t].label.toolchain, GetUserVisibleName(B[t].label) }, 0) ]
  ELSE [ ok |-> TRUE,
         project |-> AddNativeTarget(proj, NativeTarget(t, B[t].label.name, kTool, {})),
         err |-> NoErr ]

\* std::string::rfind: the last position where |sub| starts in |s|, or 0
RFind(s, sub) ==
  LET at == {i \in 1..Len(s) : i + Len(sub) - 1 <= Len(s)
                                /\ SubSeq(s, i, i + Len(sub) - 1) = sub}
  IN IF at = {} THEN 0 ELSE CHOOSE i \in at : \A j \in at : j <= i

\* [ok, project, err]
AddBundleTarget(B, t, opts, proj) ==
  LET target_name == B[t].label.name
      pbxtarget_name ==
        IF IsXCUITestModuleTarget(B[t])
        THEN SubSeq(target_name, 1, RFind(target_name, kXCTestModuleTargetNamePostfix) - 1)
        ELSE target_name
      attributes == IF opts.build_system = "kLegacy" THEN {"CODE_SIGN_IDENTITY"} ELSE {}
  IN [ ok |-> TRUE,
       project |-> AddNativeTarget(
                     proj, NativeTarget(t, pbxtarget_name, B[t].product_type, attributes)),
       err |-> NoErr ]

\* the loop over the classifier's list: [ok, project, bundle, err], where
\* bundle is the key set of the bundle_targets map
RECURSIVE AddTargetsLoop(_, _, _, _, _)
AddTargetsLoop(B, targets, opts, proj, bundle) ==
  IF targets = <<>>
  THEN [ok |-> TRUE, project |-> proj, bundle |-> bundle, err |-> NoErr]
  ELSE LET t == Head(targets)
           target_os == GetTargetOs(opts)
       IN CASE B[t].output_type = "EXECUTABLE" ->
                 IF target_os \in {"WRITER_TARGET_OS_IOS", "WRITER_TARGET_OS_TVOS"}
                 THEN AddTargetsLoop(B, Tail(targets), opts, proj, bundle)
                 ELSE LET r == AddBinaryTarget(B, t, opts, proj)
                      IN IF ~r.ok
                         THEN [ok |-> FALSE, project |-> proj, bundle |-> bundle,
                               err |-> r.err]
                         ELSE AddTargetsLoop(B, Tail(targets), opts, r.project, bundle)
            [] B[t].output_type = "CREATE_BUNDLE" ->
                 IF B[t].product_type = "" \/ IsXCUITestRunnerTarget(B[t])
                 THEN AddTargetsLoop(B, Tail(targets), opts, proj, bundle)
                 ELSE LET r == AddBundleTarget(B, t, opts, proj)
                      IN AddTargetsLoop(B, Tail(targets), opts, r.project,
                                        bundle \cup {t})
            [] OTHER -> AddTargetsLoop(B, Tail(targets), opts, proj, bundle)

\* FindApplicationTargetByName over the map, whose keys are |keys| in the
\* map's iteration order: [ok, target, err]
FindApplicationTargetByName(B, node, target_name, keys) ==
  LET hits == {i \in 1..Len(keys) : B[keys[i]].label.name = target_name}
  IN IF hits = {}
     THEN [ ok |-> FALSE, target |-> 0,
            err |-> MakeErr("cannot find host application bundle", {target_name}, node) ]
     ELSE LET first == CHOOSE i \in hits : \A j \in hits : i <= j
          IN IF ~IsApplicationTarget(B[keys[first]])
             THEN [ ok |-> FALSE, target |-> 0,
                    err |-> MakeErr("host application target not an application bundle",
                                    {target_name}, node) ]
             ELSE [ok |-> TRUE, target |-> keys[first], err |-> NoErr]

\* the loop of AddCXTestSourceFilesForTestModuleTargets over the map, from its
\* i-th key on: [ok, project, resolver, err, lookups], where lookups counts the
\* calls of FindApplicationTargetByName
RECURSIVE AddCXTestLoop(_, _, _, _, _)

\* the loop resolving the files of the module target itself in both cases
AddCXTestLoopOnModule(B, keys, i, proj, resolver) ==
  IF i > Len(keys)
  THEN [ok |-> TRUE, project |-> proj, resolver |-> resolver, err |-> NoErr, lookups |-> 0]
  ELSE LET target == keys[i]
       IN IF ~IsXCTestModuleTarget(B[target]) /\ ~IsXCUITestModuleTarget(B[target])
          THEN AddCXTestLoop(B, keys, i + 1, proj, resolver)
          ELSE LET r == SearchFilesForTarget(B, resolver, target)
                   sorted_sources == SortStrings(r.result)
               IN AddCXTestLoop(
                    B, keys, i + 1,
                    AddXCTestFilesToTestModuleTarget(
                      sorted_sources, NativeOf(proj, target), proj),
                    r)

AddCXTestLoop(B, keys, i, proj, resolver) ==
  IF i > Len(keys)
  THEN [ok |-> TRUE, project |-> proj, resolver |-> resolver, err |-> NoErr, lookups |-> 0]
  ELSE LET target == keys[i]
       IN IF ~IsXCTestModuleTarget(B[target]) /\ ~IsXCUITestModuleTarget(B[target])
          THEN AddCXTestLoop(B, keys, i + 1, proj, resolver)
          ELSE LET looked == IF IsXCTestModuleTarget(B[target]) THEN 1 ELSE 0
                   app == IF IsXCTestModuleTarget(B[target])
                          THEN FindApplicationTargetByName(
                                 B, target, B[target].xcode_test_application_name, keys)
                          ELSE [ok |-> TRUE, target |-> target, err |-> NoErr]
               IN IF ~app.ok
                  THEN [ok |-> FALSE, project |-> proj, resolver |-> resolver,
                        err |-> app.err, lookups |-> looked]
                  ELSE LET r == SearchFilesForTarget(B, resolver, app.target)
                           sorted_sources == SortStrings(r.result)
                           rest == AddCXTestLoop(
                                     B, keys, i + 1,
                                     AddXCTestFilesToTestModuleTarget(
                                       sorted_sources, NativeOf(proj, target), proj),
                                     r)
                       IN [rest EXCEPT !.lookups = @ + looked]

\* AddCXTestSourceFilesForTestModuleTargets without its early return
AddCXTestSourceFilesForTestModuleTargetsAlways(B, keys, opts, proj) ==
  AddCXTestLoop(B, keys, 1, proj, NewResolver(B))

\* [ok, project, resolver, err, lookups]
AddCXTestSourceFilesForTestModuleTargets(B, keys, opts, proj) ==
  IF opts.build_system = "kNew"
  THEN [ ok |-> TRUE, project |-> proj, resolver |-> NewResolver(B), err |-> NoErr,
         lookups |-> 0 ]
  ELSE AddCXTestLoop(B, keys, 1, proj, NewResolver(B))

\* the loop of AddDependencyTargetsForTestModuleTargets:
\* [ok, project, err, lookups]
RECURSIVE AddDependencyLoop(_, _, _, _)
AddDependencyLoop(B, keys, i, proj) ==
  IF i > Len(keys)
  THEN [ok |-> TRUE, project |-> proj, err |-> NoErr, lookups |-> 0]
  ELSE LET target == keys[i]
       IN IF ~IsXCTestModuleTarget(B[target]) /\ ~IsXCUITestModuleTarget(B[target])
          THEN AddDependencyLoop(B, keys, i + 1, proj)
          ELSE LET app == FindApplicationTargetByName(
                            B, target, B[target].xcode_test_application_name, keys)
               IN IF ~app.ok
                  THEN [ok |-> FALSE, project |-> proj, err |-> app.err, lookups |-> 1]
                  ELSE LET rest == AddDependencyLoop(
                                     B, keys, i + 1,
                                     AddPBXTargetDependency(
                                       proj, NativeOf(proj, app.target),
                                       NativeOf(proj, target)))
                       IN [rest EXCEPT !.lookups = @ + 1]

AddDependencyTargetsForTestModuleTargets(B, keys, proj) ==
  AddDependencyLoop(B, keys, 1, proj)

\* the keys of a map keyed by target pointer, in iteration order; |ptr| lists
\* the targets by ascending address
MapKeys(ptr, S) == SelectSeq(ptr, LAMBDA t : t \in S)

\* no call of FindApplicationTargetByName was made by either step
NoLookups == [injection |-> 0, wiring |-> 0]

\* AddTargetsFromBuilder once the classifier has answered |got|:
\* [ok, project, keys, resolver, err, lookups]
AddTargetsFrom(B, got, ptr, opts, proj) ==
  LET p0 == [proj EXCEPT !.aggregates = Append(@, <<"All">>)]
  IN IF ~got.ok
     THEN [ ok |-> FALSE, project |-> p0, keys |-> <<>>, resolver |-> NewResolver(B),
            err |-> got.err, lookups |-> NoLookups ]
     ELSE LET l == AddTargetsLoop(B, got.targets, opts, p0, {})
              keys == MapKeys(ptr, l.bundle)
          IN IF ~l.ok
             THEN [ ok |-> FALSE, project |-> l.project, keys |-> keys,
                    resolver |-> NewResolver(B), err |-> l.err, lookups |-> NoLookups ]
             ELSE LET x == AddCXTestSourceFilesForTestModuleTargets(B, keys, opts, l.project)
                  IN IF ~x.ok
                     THEN [ ok |-> FALSE, project |-> x.project, keys |-> keys,
                            resolver |-> x.resolver, err |-> x.err,
                            lookups |-> [injection |-> x.lookups, wiring |-> 0] ]
                     ELSE LET d == AddDependencyTargetsForTestModuleTargets(
                                     B, keys, x.project)
                          IN [ ok |-> d.ok, project |-> d.project, keys |-> keys,
                               resolver |-> x.resolver, err |-> d.err,
                               lookups |-> [ injection |-> x.lookups,
                                             wiring |-> d.lookups ] ]

\* AddTargetsFromBuilder; all_targets is builder.GetAllResolvedTargets() and
\* |ptr| lists the targets by ascending address
AddTargetsFromBuilder(B, all_targets, ptr, opts, proj) ==
  AddTargetsFrom(B, GetTargetsFromBuilder(B, all_targets, opts), ptr, opts, proj)

-----------------------------------------------------------------------------
(* XcodeProject::AddSourcesFromBuilder, AssignIds and the file writers.    *)

\* build_settings_->build_dir()
BuildDir == <<"//", "out", "/">>

\* IsStringInOutputDir(build_dir, value) and IsPathAbsolute(value)
ShouldIncludeFileInProject(source) ==
  /\ ~StartsWith(source, BuildDir)
  /\ ~(source # <<>> /\ Head(source) = "/")

\* Loader::BuildFileForLabel
BuildFileForLabel(label) == label.dir \o <<"/", "BUILD", ".gn">>

\* the sources of all targets and their BUILD.gn files, sorted, are added to
\* the indexing target
AddSourcesFromBuilder(B, all_targets, proj) ==
  LET sources ==
        { s \in UNION { Range(B[all_targets[i]].sources)
                          \cup {BuildFileForLabel(B[all_targets[i]].label)} :
                        i \in 1..Len(all_targets) } :
            ShouldIncludeFileInProject(s) }
      sorted_sources == SortStrings(sources)
  IN [ proj EXCEPT !.indexing =
         [i \in 1..Len(sorted_sources) |->
            [path |-> RebasePath(sorted_sources[i]), flag |-> "NONE"]] ]

\* the object-class enumeration, in the order of its values
PBXObjectClasses ==
  << "PBXAggregateTarget", "PBXBuildFile", "PBXContainerItemProxy",
     "PBXFileReference", "PBXGroup", "PBXNativeTarget", "PBXProject",
     "PBXShellScriptBuildPhase", "PBXSourcesBuildPhase", "PBXTargetDependency",
     "XCBuildConfiguration", "XCConfigurationList" >>

ClassValue(class) == CHOOSE i \in 1..Len(PBXObjectClasses) : PBXObjectClasses[i] = class

\* an object of the tree: its class, its Name() and the objects it owns, in
\* insertion order
PBXObject(class, name, children) ==
  [class |-> class, name |-> name, children |-> children]

\* the configuration list an object owns, with its one configuration
XCConfigurationList(owner) ==
  PBXObject("XCConfigurationList", <<"list">> \o owner,
            << PBXObject("XCBuildConfiguration", <<"Release">>, <<>>) >>)

\* the paths of the file references of the project: the files of the
\* indexing target, then the files added to the native targets, each once
RECURSIVE AddPaths(_, _)
AddPaths(paths, more) ==
  IF more = <<>> THEN paths
  ELSE AddPaths(IF Head(more) \in Range(paths) THEN paths ELSE Append(paths, Head(more)),
                Tail(more))

RECURSIVE TargetPaths(_, _)
TargetPaths(targets, paths) ==
  IF targets = <<>> THEN paths
  ELSE TargetPaths(Tail(targets),
                   AddPaths(paths, [i \in 1..Len(Head(targets).sources) |->
                                      Head(targets).sources[i].path]))

FileReferencePaths(proj) ==
  TargetPaths(proj.targets,
              AddPaths(<<>>, [i \in 1..Len(proj.indexing) |-> proj.indexing[i].path]))

\* the sources build phase of a target, owning one build file per source
PBXSourcesBuildPhase(sources) ==
  PBXObject("PBXSourcesBuildPhase", <<"Sources">>,
            [i \in 1..Len(sources) |->
               PBXObject("PBXBuildFile", sources[i].path, <<>>)])

\* a dependency owns its container item proxy; the target it points at is
\* not owned by it
PBXTargetDependency(proj, base) ==
  PBXObject("PBXTargetDependency", proj.targets[base].name,
            << PBXObject("PBXContainerItemProxy", <<"PBXContainerItemProxy">>, <<>>) >>)

PBXNativeTarget(proj, native) ==
  PBXObject("PBXNativeTarget", native.name,
            << XCConfigurationList(native.name),
               PBXObject("PBXShellScriptBuildPhase", <<"Action">>, <<>>),
               PBXSourcesBuildPhase(native.sources) >>
            \o [i \in 1..Len(native.dependencies) |->
                  PBXTargetDependency(proj, native.dependencies[i])])

\* the tree the project owns: its configuration list, its main group (the
\* source group with the file references, the product group with one file
\* reference for each native target, the build group), and its targets: the
\* indexing target when there are files to index, the aggregate targets,
\* the native targets
PBXProject(proj) ==
  LET paths == FileReferencePaths(proj)
      source == PBXObject("PBXGroup", <<"Source">>,
                          [i \in 1..Len(paths) |->
                             PBXObject("PBXFileReference", paths[i], <<>>)])
      product == PBXObject("PBXGroup", <<"Product">>,
                           [i \in 1..Len(proj.targets) |->
                              PBXObject("PBXFileReference", proj.targets[i].name, <<>>)])
      build == PBXObject("PBXGroup", <<"Build">>, <<>>)
      main == PBXObject("PBXGroup", <<>>, <<source, product, build>>)
      indexing == IF proj.indexing = <<>> THEN <<>>
                  ELSE << PBXObject("PBXNativeTarget", <<"sources">>,
                                    << XCConfigurationList(<<"sources">>),
                                       PBXSourcesBuildPhase(proj.indexing) >>) >>
      aggregate == [i \in 1..Len(proj.aggregates) |->
                      PBXObject("PBXAggregateTarget", proj.aggregates[i],
                                << XCConfigurationList(proj.aggregates[i]),
                                   PBXObject("PBXShellScriptBuildPhase", <<"Action">>,
                                             <<>>) >>)]
      native == [i \in 1..Len(proj.targets) |-> PBXNativeTarget(proj, proj.targets[i])]
  IN PBXObject("PBXProject", proj.name,
               <<XCConfigurationList(proj.name), main>> \o indexing \o aggregate \o native)

\* PBXObject::Visit: the objects in the order a visitor meets them, an
\* object before the objects it owns and those in insertion order; an object
\* is told from the others by its place in the tree
RECURSIVE VisitObject(_, _)
RECURSIVE VisitChildren(_, _, _)
VisitChildren(children, path, i) ==
  IF i > Len(children) THEN <<>>
  ELSE VisitObject(children[i], Append(path, i)) \o VisitChildren(children, path, i + 1)

VisitObject(object, path) ==
  << [path |-> path, class |-> object.class, name |-> object.name] >>
  \o VisitChildren(object.children, path, 1)

\* project->Visit(visitor)
VisitProject(proj) == VisitObject(PBXProject(proj), <<>>)

-----------------------------------------------------------------------------
(* RecursivelyAssignIds.  A digest is five 32-bit words; the words that are *)
(* modelled stay below WordRange, so that the hexadecimal text of an id is  *)
(* ordered as its three words are.                                          *)

WordRange == 16

RECURSIVE Xor(_, _)
Xor(a, b) ==
  IF a = 0 THEN b
  ELSE IF b = 0 THEN a
  ELSE ((a + b) % 2) + 2 * Xor(a \div 2, b \div 2)

\* what is known of a name by the digest functions below
NameCode(name) == Len(name) % WordRange

\* base::SHA1HashString(seed + " " + name + " " + counter), a function of its
\* text that is drawn from a family of two: "descending" gives the objects
\* of a project digests whose ids are pairwise different and fall as the
\* counter grows; "cancelling" gives them pairwise different digests whose
\* first two words are repeated in the last two
Sha1Functions == {"descending", "cancelling"}

SHA1HashString(sha1, seed, name, counter) ==
  IF sha1 = "descending"
  THEN << (WordRange - 1) - (counter % WordRange), (counter \div WordRange) % WordRange,
          NameCode(name), 0, NameCode(seed) >>
  ELSE << counter % WordRange, (counter \div WordRange) % WordRange,
          NameCode(name), counter % WordRange, (counter \div WordRange) % WordRange >>

\* the loop id[i % 3] ^= ptr[i] over the words of the digest, from the i-th
RECURSIVE FoldDigest(_, _, _)
FoldDigest(hash, i, id) ==
  IF i > Len(hash) THEN id
  ELSE FoldDigest(hash, i + 1,
                  [id EXCEPT ![((i - 1) % 3) + 1] = Xor(@, hash[i])])

\* RecursivelyAssignIdsHelper::Visit that leaves counter_ as it was
RecursivelyAssignIdsHelperVisitOnly(sha1, seed, st, object) ==
  LET hash == SHA1HashString(sha1, seed, object.name, st.counter)
  IN [ counter |-> st.counter,
       ids |-> Append(st.ids, [ path |-> object.path, counter |-> st.counter,
                                id |-> FoldDigest(hash, 1, <<0, 0, 0>>) ]) ]

\* RecursivelyAssignIdsHelper::Visit: st is the visitor, [counter, ids], where
\* ids lists the objects that were given an id, with the counter they met
RecursivelyAssignIdsHelperVisit(sha1, seed, st, object) ==
  LET hash == SHA1HashString(sha1, seed, object.name, st.counter)
  IN [ counter |-> st.counter + 1,
       ids |-> Append(st.ids, [ path |-> object.path, counter |-> st.counter,
                                id |-> FoldDigest(hash, 1, <<0, 0, 0>>) ]) ]

RECURSIVE VisitAll(_, _, _, _)
VisitAll(sha1, seed, st, objects) ==
  IF objects = <<>> THEN st
  ELSE VisitAll(sha1, seed, RecursivelyAssignIdsHelperVisit(sha1, seed, st, Head(objects)),
                Tail(objects))

\* RecursivelyAssignIds(&project_): a visitor seeded with the project's name,
\* its counter at 0
RecursivelyAssignIds(proj, sha1) ==
  VisitAll(sha1, proj.name, [counter |-> 0, ids |-> <<>>], VisitProject(proj))

\* XcodeProject::AssignIds
AssignIdsTo(proj, sha1) ==
  [proj EXCEPT !.ids = RecursivelyAssignIds(proj, sha1).ids, !.ids_assigned = TRUE]

\* the id of the object at |path|; an object that was given none has the
\* empty id
IdOf(proj, path) ==
  LET at == {k \in 1..Len(proj.ids) : proj.ids[k].path = path}
  IN IF at = {} THEN <<>> ELSE proj.ids[CHOOSE k \in at : \A j \in at : j <= k].id

\* a->id() < b->id(), on the hexadecimal texts
IdLess(a, b) ==
  \E i \in 1..Min(Len(a), Len(b)) + 1 :
    /\ \A j \in 1..(i - 1) : a[j] = b[j]
    /\ IF i <= Min(Len(a), Len(b)) THEN a[i] < b[i] ELSE Len(a) < Len(b)

\* the objects a visitor of the project meets, each with the id it carries
\* (looked for first where RecursivelyAssignIds put it: at the place of the
\* object in the order of the visit)
VisitedObjects(proj) ==
  LET objects == VisitProject(proj)
  IN [ k \in 1..Len(objects) |->
         [ class |-> objects[k].class,
           name |-> objects[k].name,
           path |-> objects[k].path,
           id |-> IF k <= Len(proj.ids) /\ proj.ids[k].path = objects[k].path
                  THEN proj.ids[k].id
                  ELSE IdOf(proj, objects[k].path) ] ]

\* CollectPBXObjectsPerClass: the objects of each class that occurs, in the
\* order they were visited; the map is keyed by class value
CollectPBXObjectsPerClass(proj) ==
  LET objects == VisitedObjects(proj)
      occurring == {objects[k].class : k \in 1..Len(objects)}
      classes == SelectSeq(PBXObjectClasses, LAMBDA c : c \in occurring)
  IN [ i \in 1..Len(classes) |->
         [ class |-> classes[i],
           objects |-> SelectSeq(objects, LAMBDA o : o.class = classes[i]) ] ]

\* what is printed of an object here: its id and its name (and, to tell the
\* object, its place in the tree)
Printed(object) == [id |-> object.id, name |-> object.name, path |-> object.path]

\* the objects of a section left in the order they were collected
SortByNothing(objects) == [i \in 1..Len(objects) |-> Printed(objects[i])]

\* std::sort of the objects of a section by id
RECURSIVE InsertById(_, _)
InsertById(x, sorted) ==
  IF sorted = <<>> THEN <<x>>
  ELSE IF IdLess(x.id, Head(sorted).id) THEN <<x>> \o sorted
  ELSE <<Head(sorted)>> \o InsertById(x, Tail(sorted))

RECURSIVE SortByIdFrom(_, _)
SortByIdFrom(objects, i) ==
  IF i = 0 THEN <<>>
  ELSE InsertById(Printed(objects[i]), SortByIdFrom(objects, i - 1))

SortById(objects) == SortByIdFrom(objects, Len(objects))

\* what XcodeProject::WriteFileContent prints of the tree: every object but
\* no pointer into the build graph; a dependency names the target it points
\* to by that target's place in the project
WriteFileContent(proj) ==
  [ name |-> proj.name,
    sdkroot |-> proj.sdkroot,
    aggregates |-> proj.aggregates,
    indexing |-> proj.indexing,
    sections |-> LET per_class == CollectPBXObjectsPerClass(proj)
                 IN [ i \in 1..Len(per_class) |->
                        [ class |-> per_class[i].class,
                          objects |-> SortById(per_class[i].objects) ] ],
    rootObject |-> IdOf(proj, <<>>),
    targets |-> [i \in 1..Len(proj.targets) |->
                   [ name |-> proj.targets[i].name,
                     product_type |-> proj.targets[i].product_type,
                     attributes |-> proj.targets[i].attributes,
                     sources |-> proj.targets[i].sources,
                     dependencies |-> proj.targets[i].dependencies ]] ]

\* the text of contents.xcworkspacedata
WorkspaceDataContent == <<"Workspace", "FileRef", "self:">>

\* the text of WorkspaceSettings.xcsettings
SettingsContent(opts) ==
  IF opts.build_system = "kLegacy"
  THEN <<"dict", "BuildSystemType", "Original">>
  ELSE <<"dict">>

\* a file of the output directory this run has not reached
Untouched == [found |-> <<"?">>, now |-> <<"?">>, modified |-> FALSE, compared |-> FALSE]

\* what an output file may hold before the run, other than |content|: the
\* project file of an empty project of another name, another workspace text
StalePbxproj(content) ==
  [ name |-> <<"x">>, sdkroot |-> content.sdkroot, aggregates |-> <<>>,
    indexing |-> <<>>, sections |-> <<>>, rootObject |-> <<>>, targets |-> <<>> ]
StaleText(content) == <<"stale">> \o content

\* WriteFileIfChanged(path, content) on a file holding |found|, the write
\* succeeding or not: [ok, file]
WriteFileIfChanged(found, content, io_ok) ==
  IF found = content
  THEN [ok |-> TRUE, file |-> [ found |-> found, now |-> found, modified |-> FALSE,
                                compared |-> TRUE ]]
  ELSE IF io_ok
  THEN [ok |-> TRUE, file |-> [ found |-> found, now |-> content, modified |-> TRUE,
                                compared |-> TRUE ]]
  ELSE [ok |-> FALSE, file |-> [ found |-> found, now |-> found, modified |-> FALSE,
                                 compared |-> TRUE ]]

-----------------------------------------------------------------------------
(* The build graphs handed to RunAndWriteFiles: the subsets, closed under  *)
(* dependencies, of a pool of targets.                                     *)

DirA == <<"//", "a">>
DirB == <<"//", "b">>
DirC == <<"//", "c">>

ThingEgtestM == <<"//", "a", "/", "thing_", "egtest", ".m">>
AppXctestMm == <<"//", "a", "/", "app_", "xctest", ".m", "m">>
GenEgtestM == <<"//", "out", "/", "x", "egtest", ".m">>
MainMm == <<"//", "a", "/", "main", ".m", "m">>
UtilCc == <<"//", "a", "/", "util", ".cc">>
EgtestMBak == <<"//", "b", "/", "egtest", ".m", ".bak">>
DirNamedXctestM == <<"//", "xctest", ".m", "/", "main", ".cc">>
EgtestMm == <<"//", "b", "/", "egtest", ".m", "m">>
FooXctestM == <<"//", "c", "/", "foo", "xctest", ".m">>

Pool ==
  << \* 1: a library with a test file
     Target(DirA, <<"lib">>, DefaultTc, "SOURCE_SET", "", <<>>,
            <<UtilCc, ThingEgtestM, EgtestMBak>>, <<>>, <<>>, <<>>, <<>>, TRUE),
     \* 2, 3: two application bundles named "host"
     Target(DirA, <<"host">>, DefaultTc, "CREATE_BUNDLE", kApplication, <<>>,
            <<MainMm, AppXctestMm>>, <<>>, <<>>, <<>>, <<>>, TRUE),
     Target(DirB, <<"host">>, DefaultTc, "CREATE_BUNDLE", kApplication, <<>>,
            <<DirNamedXctestM>>, <<>>, <<>>, <<>>, <<>>, TRUE),
     \* 4: a framework bundle named "host"
     Target(DirC, <<"host">>, DefaultTc, "CREATE_BUNDLE", kFramework, <<>>,
            <<>>, <<>>, <<>>, <<>>, <<>>, TRUE),
     \* 5: a unit-test module hosted by "host"
     Target(DirA, <<"foo", "_module">>, DefaultTc, "CREATE_BUNDLE", kUnitTest,
            <<"host">>, <<>>, <<>>, <<>>, <<>>, <<>>, TRUE),
     \* 6: a UI-test module hosted by "host", with test files of its own
     Target(DirA, <<"ui", "_module">>, DefaultTc, "CREATE_BUNDLE", kUITesting,
            <<"host">>, <<GenEgtestM, FooXctestM>>, <<>>, <<>>, <<>>, <<>>, TRUE),
     \* 7: the runner application of the UI test
     Target(DirA, <<"ui", "_runner">>, DefaultTc, "CREATE_BUNDLE", kApplication, <<>>,
            <<>>, <<>>, <<>>, <<>>, <<>>, TRUE),
     \* 8: a framework bundle whose name ends in "_runner"
     Target(DirA, <<"x", "_runner">>, DefaultTc, "CREATE_BUNDLE", kFramework, <<>>,
            <<>>, <<>>, <<>>, <<>>, <<>>, TRUE),
     \* 9: an executable whose toolchain has a link tool
     Target(DirA, <<"tool">>, DefaultTc, "EXECUTABLE", "", <<>>,
            <<UtilCc>>, <<>>, <<>>, <<>>, <<>>, TRUE),
     \* 10: an executable whose toolchain has no link tool
     Target(DirB, <<"tool2">>, DefaultTc, "EXECUTABLE", "", <<>>,
            <<>>, <<>>, <<>>, <<>>, <<>>, FALSE),
     \* 11: bundle data that links executable 9
     Target(DirA, <<"data">>, DefaultTc, "BUNDLE_DATA", "", <<>>,
            <<>>, <<9>>, <<>>, <<>>, <<>>, TRUE),
     \* 12: an executable of another toolchain, with an output_dir of its own
     Target(DirA, <<"tool">>, OtherTc, "EXECUTABLE", "", <<>>,
            <<>>, <<>>, <<>>, <<>>, <<"//", "out", "/", "x">>, FALSE),
     \* 13: a bundle without product type
     Target(DirA, <<"res">>, DefaultTc, "CREATE_BUNDLE", "", <<>>,
            <<>>, <<>>, <<>>, <<>>, <<>>, TRUE),
     \* 14: bundle data of another toolchain that links executable 9
     Target(DirB, <<"data">>, OtherTc, "BUNDLE_DATA", "", <<>>,
            <<>>, <<>>, <<9>>, <<>>, <<>>, TRUE),
     \* 15: bundle data of directory b that links executable 9
     Target(DirB, <<"data">>, DefaultTc, "BUNDLE_DATA", "", <<>>,
            <<>>, <<>>, <<9>>, <<>>, <<>>, TRUE),
     \* 16: a UI-test module hosted by "host", with test files in library 1
     Target(DirB, <<"ui", "_module">>, DefaultTc, "CREATE_BUNDLE", kUITesting,
            <<"host">>, <<MainMm>>, <<>>, <<1>>, <<>>, <<>>, TRUE) >>

AllDeps(t) == Range(t.public_deps) \cup Range(t.private_deps) \cup Range(t.data_deps)

\* the graphs: every dependency of a target of the graph is in the graph
Graphs ==
  { S \in SUBSET (1..Len(Pool)) :
      /\ S # {}
      /\ Cardinality(S) <= MaxTargets
      /\ \A t \in S : AllDeps(Pool[t]) \subseteq S }

FilterStrings ==
  { <<>>,                                   \* no filter
    << <<"//", "a", "/", "*">> >>,          \* "//a/*"
    << <<"//", "a", "/", "*">>, <<"//", "a", ":", ":">> >> }   \* a malformed pattern

TargetOsValues ==
  { [set |-> FALSE, type |-> "NONE", value |-> <<>>],
    [set |-> TRUE, type |-> "STRING", value |-> <<"ios">>],
    [set |-> TRUE, type |-> "STRING", value |-> <<"tvos">>],
    [set |-> TRUE, type |-> "STRING", value |-> <<"mac">>] }

OptionsSet ==
  [ project_name : {<<"all">>},
    build_system : {"kLegacy", "kNew"},
    dir_filters_string : FilterStrings,
    target_os : TargetOsValues ]

NoCall == [target |-> 0, result |-> {}]

Init ==
  /\ pc = "start"
  /\ \E S \in Graphs : builder = [t \in S |-> Pool[t]]
  /\ options \in OptionsSet
  /\ project = NewProject(options)
  /\ bundle_targets = <<>>
  /\ err = NoErr
  /\ disk = [f \in OutputFiles |-> Untouched]
  /\ cache_ = <<>>
  /\ scans = [t \in DOMAIN builder |-> 0]
  /\ lastCall = NoCall
  /\ lookups = NoLookups

-----------------------------------------------------------------------------
(* The steps of XcodeWriter::RunAndWriteFiles.                             *)

\* builder.GetAllResolvedTargets(): the targets, in some order
GetAllResolvedTargets(B) == Perms(DOMAIN B)

\* the orders of the targets' addresses.  Only the maps keyed by target
\* pointer read them, and their keys are CREATE_BUNDLE targets: every order
\* of those is listed, followed by the other targets
PointerOrders(B) ==
  LET bundles == {t \in DOMAIN B : B[t].output_type = "CREATE_BUNDLE"}
  IN {p \o Ascending(DOMAIN B \ bundles) : p \in Perms(bundles)}

StepAddSourcesFromBuilder ==
  /\ pc = "start"
  /\ project' \in { AddSourcesFromBuilder(builder, all_targets, project) :
                      all_targets \in GetAllResolvedTargets(builder) }
  /\ pc' = "sources"
  /\ UNCHANGED <<builder, options, bundle_targets, err, disk, cache_, scans,
               lastCall, lookups>>

\* |ptr| is the order of the targets' addresses, which orders the maps keyed
\* by target pointer
StepAddTargetsFromBuilder ==
  /\ pc = "sources"
  /\ \E got \in { GetTargetsFromBuilder(builder, all_targets, options) :
                     all_targets \in GetAllResolvedTargets(builder) },
        ptr \in PointerOrders(builder) :
       LET r == AddTargetsFrom(builder, got, ptr, options, project)
       IN /\ project' = r.project
          /\ bundle_targets' = r.keys
          /\ cache_' = r.resolver.cache
          /\ scans' = r.resolver.scans
          /\ err' = r.err
          /\ lookups' = r.lookups
          /\ pc' = IF r.ok THEN "targets" ELSE "failed"
  /\ UNCHANGED <<builder, options, disk, lastCall>>

StepAssignIds ==
  /\ pc = "targets"
  /\ \E sha1 \in Sha1Functions : project' = AssignIdsTo(project, sha1)
  /\ pc' = "ids"
  /\ UNCHANGED <<builder, options, bundle_targets, err, disk, cache_, scans,
               lastCall, lookups>>

\* one output file: its path is resolved, then WriteFileIfChanged; the
\* file system decides whether the path resolves, what the file held and
\* whether a write succeeds
\* WriteOutputFile writing the file without comparing it with the content
WriteOutputFileAlways(file, content, stale, next) ==
  \E resolved \in BOOLEAN, found \in {content, stale}, io_ok \in BOOLEAN :
    IF ~resolved
    THEN /\ err' = MakeErr("cannot resolve path", {<<file>>}, 0)
         /\ pc' = "failed"
         /\ UNCHANGED disk
    ELSE /\ disk' = [disk EXCEPT ![file] =
                       IF io_ok
                       THEN [ found |-> found, now |-> content, modified |-> TRUE,
                              compared |-> FALSE ]
                       ELSE [ found |-> found, now |-> found, modified |-> FALSE,
                              compared |-> FALSE ]]
         /\ err' = IF io_ok THEN err ELSE MakeErr("unable to write file", {<<file>>}, 0)
         /\ pc' = IF io_ok THEN next ELSE "failed"

WriteOutputFile(file, content, stale, next) ==
  \E resolved \in BOOLEAN, found \in {content, stale}, io_ok \in BOOLEAN :
    IF ~resolved
    THEN /\ err' = MakeErr("cannot resolve path", {<<file>>}, 0)
         /\ pc' = "failed"
         /\ UNCHANGED disk
    ELSE LET w == WriteFileIfChanged(found, content, io_ok)
         IN /\ disk' = [disk EXCEPT ![file] = w.file]
            /\ err' = IF w.ok THEN err ELSE MakeErr("unable to write file", {<<file>>}, 0)
            /\ pc' = IF w.ok THEN next ELSE "failed"

\* XcodeProject::WriteFile, up to the project file
StepWriteFile ==
  /\ pc = "ids"
  /\ \E content \in {WriteFileContent(project)} :
       WriteOutputFile("project.pbxproj", content, StalePbxproj(content), "pbxproj")
  /\ UNCHANGED <<builder, options, project, bundle_targets, cache_, scans,
               lastCall, lookups>>

StepWriteWorkspaceDataFile ==
  /\ pc = "pbxproj"
  /\ WriteOutputFile("contents.xcworkspacedata", WorkspaceDataContent,
                     StaleText(WorkspaceDataContent), "workspacedata")
  /\ UNCHANGED <<builder, options, project, bundle_targets, cache_, scans,
               lastCall, lookups>>

StepWriteSettingsFile ==
  /\ pc = "workspacedata"
  /\ WriteOutputFile("WorkspaceSettings.xcsettings", SettingsContent(options),
                     StaleText(SettingsContent(options)), "done")
  /\ UNCHANGED <<builder, options, project, bundle_targets, cache_, scans,
               lastCall, lookups>>

Next ==
  \/ StepAddSourcesFromBuilder
  \/ StepAddTargetsFromBuilder
  \/ StepAssignIds
  \/ StepWriteFile
  \/ StepWriteWorkspaceDataFile
  \/ StepWriteSettingsFile

Spec == Init /\ [][Next]_vars

-----------------------------------------------------------------------------
(* Runs of one XCTestFilesResolver over a dependency graph: any sequence   *)
(* of SearchFilesForTarget calls.  The graphs are the acyclic graphs over  *)
(* NumNodes targets in which a target depends on later targets only.       *)

\* at most this many scans of one target's sources are followed
MaxScans == 2

SourceTable ==
  << <<MainMm, AppXctestMm>>,
     <<ThingEgtestM, UtilCc, EgtestMBak>>,
     <<DirNamedXctestM, FooXctestM>>,
     <<EgtestMm, GenEgtestM>> >>

NodePairs == {<<i, j>> \in (1..NumNodes) \X (1..NumNodes) : i < j}

\* the targets that have sources: all of them, or the last one only
SourcedTargets == { 1..NumNodes, {NumNodes} }

\* the edge i -> j is a public dependency when i + j is even, a private one
\* when it is odd; the targets of |sourced| take their sources from the table
ResolverGraph(edges, offset, sourced) ==
  [ i \in 1..NumNodes |->
      Target(DirA, [k \in 1..i |-> "x"], DefaultTc, "SOURCE_SET", "", <<>>,
             IF i \in sourced
             THEN SourceTable[((i + offset) % Len(SourceTable)) + 1]
             ELSE <<>>,
             Ascending({j \in 1..NumNodes : <<i, j>> \in edges /\ (i + j) % 2 = 0}),
             Ascending({j \in 1..NumNodes : <<i, j>> \in edges /\ (i + j) % 2 = 1}),
             <<>>, <<>>, TRUE) ]

InitResolver ==
  /\ pc = "resolver"
  /\ \E edges \in SUBSET NodePairs, offset \in 0..(Len(SourceTable) - 1),
        sourced \in SourcedTargets :
       builder = ResolverGraph(edges, offset, sourced)
  /\ options = [ project_name |-> <<"all">>, build_system |-> "kLegacy",
                 dir_filters_string |-> <<>>,
                 target_os |-> [set |-> FALSE, type |-> "NONE", value |-> <<>>] ]
  /\ project = NewProject(options)
  /\ bundle_targets = <<>>
  /\ err = NoErr
  /\ disk = [f \in OutputFiles |-> Untouched]
  /\ cache_ = <<>>
  /\ scans = [t \in DOMAIN builder |-> 0]
  /\ lastCall = NoCall
  /\ lookups = NoLookups

\* resolver.SearchFilesForTarget(target), for any target of the graph
CallSearchFilesForTarget ==
  /\ pc = "resolver"
  /\ \A t \in DOMAIN scans : scans[t] < MaxScans
  /\ \E target \in DOMAIN builder :
       LET r == SearchFilesForTarget(
                  builder, [cache |-> cache_, scans |-> scans, result |-> {}], target)
       IN /\ cache_' = r.cache
          /\ scans' = r.scans
          /\ lastCall' = [target |-> target, result |-> r.result]
  /\ UNCHANGED <<pc, builder, options, project, bundle_targets, err, disk, lookups>>

NextResolver == CallSearchFilesForTarget

SpecResolver == InitResolver /\ [][NextResolver]_vars

-----------------------------------------------------------------------------
(* What the claims speak of.                                               *)

\* the build-graph targets that were emitted as native targets
Emitted == {project.targets[i].target : i \in 1..Len(project.targets)}

\* AddTargetsFromBuilder has returned
TargetsReturned == pc \notin {"start", "sources", "resolver"}

\* AddTargetsFromBuilder has returned success
TargetsAdded ==
  \/ pc \in {"targets", "ids", "pbxproj", "workspacedata", "done"}
  \/ pc = "failed" /\ err.message \in {"cannot resolve path", "unable to write file"}

\* a unit-test or UI-test module target, in the words of the specification
IsModule(t) ==
  /\ t.output_type = "CREATE_BUNDLE"
  /\ t.product_type \in {"com.apple.product-type.bundle.unit-test",
                         "com.apple.product-type.bundle.ui-testing"}
  /\ t.label.name # <<>>
  /\ t.label.name[Len(t.label.name)] = "_module"

\* the targets the user's filter keeps
KeptByFilter(t) ==
  \/ options.dir_filters_string = <<>>
  \/ \E i \in 1..Len(options.dir_filters_string) :
       options.dir_filters_string[i] = t.label.dir \o <<"/", "*">>

-----------------------------------------------------------------------------
(* C1: every run of RunAndWriteFiles that returns failure has modified     *)
(* none of the three output files.                                         *)
C1_NoFileModifiedOnFailure ==
  pc = "failed" => \A f \in OutputFiles : ~disk[f].modified

(* C2: the content of the project file does not depend on the order in     *)
(* which the builder lists the targets nor on the iteration order of the   *)
(* maps keyed by target pointer: every such order yields the content this  *)
(* run produced.                                                           *)
C2_Determinism ==
  pc = "targets" =>
    \A all_targets \in GetAllResolvedTargets(builder), ptr \in PointerOrders(builder) :
      LET r == AddTargetsFromBuilder(
                 builder, all_targets, ptr, options,
                 AddSourcesFromBuilder(builder, all_targets, NewProject(options)))
      IN r.ok /\ WriteFileContent(r.project) = WriteFileContent(project)

(* C3: when an emitted module target declares a host application name that *)
(* matches no emitted bundle target, or matches an emitted bundle target   *)
(* that is not an application, AddTargetsFromBuilder returns failure.      *)
C3_TestLinkingFailure ==
  TargetsReturned =>
    \A m \in Emitted :
      ( /\ IsModule(builder[m])
        /\ LET hosts == { k \in Range(bundle_targets) :
                            builder[k].label.name =
                              builder[m].xcode_test_application_name }
           IN \/ hosts = {}
              \/ \E k \in hosts :
                   builder[k].product_type # "com.apple.product-type.application" )
      => pc = "failed"

(* C4: the error reported for a host application that cannot be found      *)
(* names the module target and the missing host application name.          *)
C4_ErrorNamesModuleAndHost ==
  (pc = "failed" /\ err.message = "cannot find host application bundle") =>
    /\ builder[err.node].xcode_test_application_name \in err.mentions
    /\ builder[err.node].label.name \in err.mentions


(* C5: after a successful AddTargetsFromBuilder every emitted module       *)
(* target owns exactly one dependency edge, which points to the native     *)
(* target of an emitted application bundle named as the module's host      *)
(* application, and no other native target owns a dependency edge.         *)
C5_ModuleDependencyEdges ==
  TargetsAdded =>
    \A i \in 1..Len(project.targets) :
      LET n == project.targets[i]
          t == builder[n.target]
      IN IF IsModule(t)
         THEN /\ Len(n.dependencies) = 1
              /\ n.dependencies[1] \in 1..Len(project.targets)
              /\ LET app == builder[project.targets[n.dependencies[1]].target]
                 IN /\ app.output_type = "CREATE_BUNDLE"
                    /\ app.product_type = "com.apple.product-type.application"
                    /\ app.label.name = t.xcode_test_application_name
         ELSE n.dependencies = <<>>

\* a unit-test module and a UI-test module both got their edge to the host
C5_Witness ==
  /\ pc = "targets"
  /\ \E i, j \in 1..Len(project.targets) :
       /\ builder[project.targets[i].target].product_type = kUnitTest
       /\ builder[project.targets[j].target].product_type = kUITesting
       /\ Len(project.targets[i].dependencies) = 1
       /\ project.targets[i].dependencies = project.targets[j].dependencies

(* C6: no target whose settings are not the default toolchain's is ever    *)
(* emitted as a native target.                                             *)
C6_NonDefaultToolchainDropped ==
  \A t \in Emitted : builder[t].label.toolchain = DefaultTc

(* C7: an Executable target that is a linked (public or private)           *)
(* dependency of a default-toolchain BundleData target kept by the filter  *)
(* is never emitted as a native target.                                    *)
C7_BundledExecutableNotEmitted ==
  \A e \in DOMAIN builder, d \in DOMAIN builder :
    ( /\ builder[e].output_type = "EXECUTABLE"
      /\ builder[d].output_type = "BUNDLE_DATA"
      /\ builder[d].label.toolchain = DefaultTc
      /\ KeptByFilter(builder[d])
      /\ e \in Range(builder[d].public_deps) \cup Range(builder[d].private_deps) )
    => e \notin Emitted

\* an executable was left out because bundle data links it, while another
\* executable of the same graph was emitted
C7_Witness ==
  /\ pc = "targets"
  /\ \E e \in DOMAIN builder \ Emitted, d \in DOMAIN builder :
       /\ builder[e].output_type = "EXECUTABLE"
       /\ builder[d].output_type = "BUNDLE_DATA"
       /\ builder[d].is_default
       /\ KeptByFilter(builder[d])
       /\ e \in Range(builder[d].private_deps)
  /\ \E x \in Emitted : builder[x].output_type = "EXECUTABLE"

\* the Executable targets of the classifier's list
SurvivingExecutables ==
  LET got == GetTargetsFromBuilder(builder, Ascending(DOMAIN builder), options)
  IN {t \in Range(got.targets) : builder[t].output_type = "EXECUTABLE"}

IsMobileOverride ==
  /\ options.target_os.set
  /\ options.target_os.type = "STRING"
  /\ options.target_os.value \in {<<"ios">>, <<"tvos">>}

EmittedAsTool(t) ==
  \E i \in 1..Len(project.targets) :
    /\ project.targets[i].target = t
    /\ project.targets[i].product_type = "com.apple.product-type.tool"

(* C8, as claimed: under a target_os override of "ios" or "tvos" no        *)
(* Executable target is emitted; under any other or no override every      *)
(* Executable target of the classifier's list is emitted as a tool.        *)
C8_ExecutablesByTargetOs ==
  TargetsReturned =>
    IF IsMobileOverride
    THEN \A t \in Emitted : builder[t].output_type # "EXECUTABLE"
    ELSE \A t \in SurvivingExecutables : EmittedAsTool(t)

(* C8, amended: as claimed, except that the second half holds when         *)
(* generation did not stop on an Executable without link tool.             *)
C8_ExecutablesByTargetOsUnlessNoTool ==
  TargetsReturned =>
    IF IsMobileOverride
    THEN \A t \in Emitted : builder[t].output_type # "EXECUTABLE"
    ELSE (pc = "failed" /\ err.message = "link tool not defined")
         \/ \A t \in SurvivingExecutables : EmittedAsTool(t)

\* under "tvos" an executable of the classifier's list was passed over while
\* a bundle was emitted
C8_Witness ==
  /\ pc = "targets"
  /\ options.target_os.value = <<"tvos">>
  /\ SurvivingExecutables # {}
  /\ Emitted # {}

(* C9, as claimed: a CreateBundle target whose name ends with "_runner" is *)
(* never emitted as a native target.                                       *)
C9_NoRunnerEmitted ==
  \A t \in Emitted :
    ~( /\ builder[t].output_type = "CREATE_BUNDLE"
       /\ builder[t].label.name[Len(builder[t].label.name)] = "_runner" )

(* C9, amended: a CreateBundle target of the application product type      *)
(* whose name ends with "_runner" is never emitted; when such a runner and *)
(* its sibling UI-test module are both in the classifier's list and        *)
(* AddTargetsFromBuilder succeeds, the two yield exactly one native target.*)
C9_NoApplicationRunnerEmitted ==
  /\ \A t \in Emitted :
       ~( /\ builder[t].output_type = "CREATE_BUNDLE"
          /\ builder[t].product_type = "com.apple.product-type.application"
          /\ builder[t].label.name[Len(builder[t].label.name)] = "_runner" )
  /\ TargetsAdded =>
       \A r \in DOMAIN builder, m \in DOMAIN builder :
         LET rn == builder[r].label.name
             mn == builder[m].label.name
         IN ( /\ builder[r].output_type = "CREATE_BUNDLE"
              /\ builder[r].product_type = "com.apple.product-type.application"
              /\ builder[m].output_type = "CREATE_BUNDLE"
              /\ builder[m].product_type = "com.apple.product-type.bundle.ui-testing"
              /\ KeptByFilter(builder[r]) /\ KeptByFilter(builder[m])
              /\ rn[Len(rn)] = "_runner" /\ mn[Len(mn)] = "_module"
              /\ SubSeq(rn, 1, Len(rn) - 1) = SubSeq(mn, 1, Len(mn) - 1) )
            => Cardinality({i \in 1..Len(project.targets) :
                              project.targets[i].target \in {r, m}}) = 1

\* a runner application and its sibling module went through a successful
\* AddTargetsFromBuilder
C9_Witness ==
  /\ pc = "targets"
  /\ \E r \in DOMAIN builder \ Emitted, m \in Emitted :
       /\ builder[r].product_type = kApplication
       /\ builder[r].label.name = <<"ui", "_runner">>
       /\ builder[m].label.name = <<"ui", "_module">>
       /\ KeptByFilter(builder[r])


\* the targets reachable from those of S over public and private dependencies
RECURSIVE DepsClosure(_, _)
DepsClosure(B, S) ==
  LET more == S \cup UNION { Range(B[t].public_deps) \cup Range(B[t].private_deps) : t \in S }
  IN IF more = S THEN S ELSE DepsClosure(B, more)

\* the sources of the closure of |target| that end with egtest.m, egtest.mm,
\* xctest.m or xctest.mm (no suffix holds a separator, so a path ends with
\* one exactly when its file name does)
ClosureTestFiles(B, target) ==
  { f \in UNION { Range(B[t].sources) : t \in DepsClosure(B, {target}) } :
      \E suffix \in { <<"egtest", ".m">>, <<"egtest", ".m", "m">>,
                      <<"xctest", ".m">>, <<"xctest", ".m", "m">> } :
        /\ Len(f) >= Len(suffix)
        /\ \A i \in 1..Len(suffix) : f[Len(f) - Len(suffix) + i] = suffix[i] }

(* C10: over any sequence of calls on one resolver, SearchFilesForTarget   *)
(* on a target returns exactly the test-named sources of the target's      *)
(* reflexive-transitive closure over public and private dependencies, and  *)
(* so does every cache entry.                                              *)
C10_SearchReturnsClosureTestFiles ==
  /\ lastCall.target # 0 =>
       lastCall.result = ClosureTestFiles(builder, lastCall.target)
  /\ \A t \in DOMAIN cache_ : cache_[t] = ClosureTestFiles(builder, t)

\* a call on the top of a diamond, answered from mixed public and private
\* dependencies, after its closure's entries were cached by earlier calls
C10_Witness ==
  /\ pc = "resolver"
  /\ lastCall.target = 2
  /\ 1 \in DOMAIN cache_
  /\ builder[1].private_deps = <<2>>
  /\ builder[2].public_deps = <<4>> /\ builder[2].private_deps = <<3>>
  /\ builder[3].private_deps = <<4>>
  /\ Cardinality(lastCall.result) >= 3
  /\ \E f \in lastCall.result : f \notin Range(builder[2].sources)

-----------------------------------------------------------------------------
\* the diamond A -> B, A -> C, B -> D, C -> D on the targets 1, 2, 3 and 4,
\* with test files in D only, and one of them
IsDiamond ==
  /\ Range(builder[1].public_deps) \cup Range(builder[1].private_deps) = {2, 3}
  /\ Range(builder[2].public_deps) \cup Range(builder[2].private_deps) = {4}
  /\ Range(builder[3].public_deps) \cup Range(builder[3].private_deps) = {4}
  /\ Range(builder[4].public_deps) \cup Range(builder[4].private_deps) = {}
  /\ \A t \in 1..3 : builder[t].sources = <<>>
  /\ Cardinality(ClosureTestFiles(builder, 4)) = 1

(* C11: over the lifetime of one resolver, whatever calls are made, the    *)
(* sources of each target are scanned at most once and the target has a    *)
(* cache entry exactly when they were; in the diamond A -> B, A -> C,      *)
(* B -> D, C -> D with one test file in D, resolving A scans D exactly     *)
(* once and returns a set of one element.                                  *)
C11_ScannedAtMostOnce ==
  /\ \A t \in DOMAIN scans : scans[t] <= 1 /\ (t \in DOMAIN cache_ <=> scans[t] = 1)
  /\ (pc = "resolver" /\ IsDiamond /\ lastCall.target = 1) =>
       scans[4] = 1 /\ Cardinality(lastCall.result) = 1

\* A of the diamond was resolved, and every target of it scanned once: two
\* dependency paths led to D
C11_Witness ==
  /\ pc = "resolver"
  /\ IsDiamond
  /\ lastCall.target = 1
  /\ DOMAIN cache_ = 1..4
  /\ scans = [t \in 1..4 |-> 1]

-----------------------------------------------------------------------------
\* the places of the objects of a tree, and the object at a place
RECURSIVE PathsOf(_, _)
PathsOf(object, path) ==
  {path} \cup UNION { PathsOf(object.children[i], Append(path, i)) :
                       i \in 1..Len(object.children) }

RECURSIVE ObjectAt(_, _)
ObjectAt(object, path) ==
  IF path = <<>> THEN object ELSE ObjectAt(object.children[Head(path)], Tail(path))

\* the project file this run wrote, if it wrote one
Serialized == disk["project.pbxproj"].modified

(* C12: in every run, when AssignIds returns, each object of the project   *)
(* tree was visited by the id assigner exactly once, the k-th visited      *)
(* object meeting the counter k - 1; ids are assigned only after the       *)
(* sources and the targets were added, the project (its tree and its ids)  *)
(* does not change once they are assigned, and a project file is written   *)
(* only with an id on every object in it.                                  *)
C12_IdAssignmentOrdering ==
  /\ [](pc = "ids" =>
          /\ { project.ids[k].path : k \in 1..Len(project.ids) }
               = PathsOf(PBXProject(project), <<>>)
          /\ \A j, k \in 1..Len(project.ids) :
               j # k => project.ids[j].path # project.ids[k].path
          /\ \A k \in 1..Len(project.ids) : project.ids[k].counter = k - 1)
  /\ [](project.ids # <<>> =>
          project.ids_assigned /\ pc \notin {"start", "sources", "targets", "resolver"})
  /\ [](pc \in {"pbxproj", "workspacedata", "done"} \/ Serialized => project.ids_assigned)
  /\ [](Serialized =>
          LET content == disk["project.pbxproj"].now
          IN /\ content.rootObject # <<>>
             /\ \A i \in 1..Len(content.sections) :
                  \A k \in 1..Len(content.sections[i].objects) :
                    content.sections[i].objects[k].id # <<>>)
  /\ [][project.ids_assigned => project' = project]_vars

\* a run that wrote the three files of a project of twenty objects or more
C12_Witness ==
  /\ pc = "done"
  /\ Serialized
  /\ project.ids_assigned
  /\ Len(project.ids) >= 20
  /\ project.ids[Len(project.ids)].counter = Len(project.ids) - 1

VisitIndex(path) == CHOOSE k \in 1..Len(project.ids) : project.ids[k].path = path

(* C14: in the project file that is written, the sections follow the order *)
(* of the object-class enumeration with at most one section for a class,   *)
(* every object of the tree is in the section of its class and in no       *)
(* other place, and the ids of a section never decrease, whatever the      *)
(* order in which the builder listed the targets.                          *)
C14_SerializationOrder ==
  Serialized =>
    LET sections == disk["project.pbxproj"].now.sections
        tree == PBXProject(project)
        paths == PathsOf(tree, <<>>)
        places == UNION { { <<i, k>> : k \in 1..Len(sections[i].objects) } :
                          i \in 1..Len(sections) }
    IN /\ \A i \in 1..(Len(sections) - 1) :
            ClassValue(sections[i].class) < ClassValue(sections[i + 1].class)
       /\ { sections[pl[1]].objects[pl[2]].path : pl \in places } = paths
       /\ Cardinality(places) = Cardinality(paths)
       /\ \A pl \in places :
            ObjectAt(tree, sections[pl[1]].objects[pl[2]].path).class
              = sections[pl[1]].class
       /\ \A i \in 1..Len(sections) :
            \A k \in 1..(Len(sections[i].objects) - 1) :
              ~IdLess(sections[i].objects[k + 1].id, sections[i].objects[k].id)

\* a written section in which the sort moved an object visited later in front
\* of one visited earlier
C14_Witness ==
  /\ Serialized
  /\ \E i \in 1..Len(disk["project.pbxproj"].now.sections) :
       LET objects == disk["project.pbxproj"].now.sections[i].objects
       IN \E k \in 1..(Len(objects) - 1) :
            /\ IdLess(objects[k].id, objects[k + 1].id)
            /\ VisitIndex(objects[k].path) > VisitIndex(objects[k + 1].path)

-----------------------------------------------------------------------------
\* the content this run generates for an output file
Generated(f) ==
  CASE f = "project.pbxproj" -> WriteFileContent(project)
    [] f = "contents.xcworkspacedata" -> WorkspaceDataContent
    [] f = "WorkspaceSettings.xcsettings" -> SettingsContent(options)

\* the run has reached the output file |f|: it read it or wrote it
Reached(f) == disk[f].compared \/ disk[f].modified

(* C15: each of the three output files is written only by the step that    *)
(* first compares it with the generated content: a file the run reached    *)
(* was compared, it is modified only when what it held differed from the   *)
(* generated content, which it then holds, and a file that held the        *)
(* generated content is left untouched.                                    *)
C15_IdempotentWrite ==
  \A f \in OutputFiles :
    Reached(f) =>
      \A generated \in {Generated(f)} :
        /\ disk[f].compared
        /\ disk[f].modified =>
             disk[f].found # generated /\ disk[f].now = generated
        /\ disk[f].found = generated =>
             ~disk[f].modified /\ disk[f].now = disk[f].found

\* a run over a directory that already held the three files it generates
C15_Witness ==
  /\ pc = "done"
  /\ \A f \in OutputFiles :
       disk[f].compared /\ disk[f].found = Generated(f) /\ ~disk[f].modified

-----------------------------------------------------------------------------
\* the targets the classifier lets through, in the words of the
\* specification: those the filter keeps, but the executables that a
\* bundle-data target of the default toolchain kept by the filter depends on
Surviving ==
  { t \in DOMAIN builder :
      /\ KeptByFilter(builder[t])
      /\ ~( /\ builder[t].output_type = "EXECUTABLE"
            /\ \E b \in DOMAIN builder :
                 /\ KeptByFilter(builder[b])
                 /\ builder[b].output_type = "BUNDLE_DATA"
                 /\ builder[b].is_default
                 /\ t \in Range(builder[b].public_deps) \cup Range(builder[b].private_deps) ) }

(* C16: when AddTargetsFromBuilder calls the classifier, whatever the order *)
(* in which the builder lists the targets, the list the classifier returns *)
(* is in strictly ascending label order and holds each surviving target    *)
(* exactly once; the native targets are created in ascending label order.  *)
C16_ClassifierResultSorted ==
  /\ pc = "sources" =>
       \A all_targets \in GetAllResolvedTargets(builder) :
         \A got \in {GetTargetsFromBuilder(builder, all_targets, options)} :
           got.ok =>
             /\ \A i \in 1..(Len(got.targets) - 1) :
                  LabelLess(builder[got.targets[i]].label,
                            builder[got.targets[i + 1]].label)
             /\ Range(got.targets) = Surviving
             /\ Len(got.targets) = Cardinality(Surviving)
  /\ TargetsReturned =>
       \A i \in 1..(Len(project.targets) - 1) :
         LabelLess(builder[project.targets[i].target].label,
                   builder[project.targets[i + 1].target].label)

\* three native targets were created, the builder's list naming them in
\* another order than their labels'
C16_Witness ==
  /\ TargetsAdded
  /\ Len(project.targets) = 3
  /\ \E i, j \in 1..3 : i < j /\ project.targets[i].target > project.targets[j].target
  /\ Cardinality(Surviving) = 3

-----------------------------------------------------------------------------
\* the module targets among the keys of the map of bundle targets
ModuleKeys ==
  { t \in Range(bundle_targets) :
      IsXCTestModuleTarget(builder[t]) \/ IsXCUITestModuleTarget(builder[t]) }

UnitTestModuleKeys == { t \in ModuleKeys : IsXCTestModuleTarget(builder[t]) }

\* the target whose test files the injection step gives to the module |t|
\* (its host, when the module has one emitted, is the target its dependency
\* points at)
InjectionDone(t) ==
  \/ IsXCUITestModuleTarget(builder[t]) /\ ~IsXCTestModuleTarget(builder[t])
       /\ t \in DOMAIN cache_
  \/ IsXCTestModuleTarget(builder[t])
       /\ \E h \in DOMAIN cache_ :
            builder[h].label.name = builder[t].xcode_test_application_name

(* C17: under the new build system no source is injected into any native   *)
(* target, the injection step looks up no host and resolves no file, and   *)
(* when AddTargetsFromBuilder succeeds every module target has had its     *)
(* host looked up once and got its dependency; under the legacy build      *)
(* system both steps run, the injection first: the wiring step looks up a  *)
(* host only after every module target was given its files.                *)
C17_InjectionSkippedUnderNewBuildSystem ==
  TargetsReturned =>
    /\ options.build_system = "kNew" =>
         /\ \A i \in 1..Len(project.targets) : project.targets[i].sources = <<>>
         /\ lookups.injection = 0
         /\ cache_ = <<>> /\ \A t \in DOMAIN scans : scans[t] = 0
         /\ TargetsAdded =>
              /\ lookups.wiring = Cardinality(ModuleKeys)
              /\ \A t \in ModuleKeys :
                   Len(project.targets[NativeOf(project, t)].dependencies) = 1
    /\ options.build_system = "kLegacy" =>
         /\ lookups.wiring > 0 =>
              /\ lookups.injection = Cardinality(UnitTestModuleKeys)
              /\ \A t \in ModuleKeys : InjectionDone(t)
         /\ TargetsAdded =>
              /\ lookups.injection = Cardinality(UnitTestModuleKeys)
              /\ lookups.wiring = Cardinality(ModuleKeys)
              /\ \A t \in ModuleKeys :
                   /\ InjectionDone(t)
                   /\ Len(project.targets[NativeOf(project, t)].dependencies) = 1

\* under the new build system, a unit-test module whose host has test files
\* got its dependency and none of the files
C17_Witness ==
  /\ TargetsAdded
  /\ options.build_system = "kNew"
  /\ \E t \in UnitTestModuleKeys :
       LET native == project.targets[NativeOf(project, t)]
       IN /\ native.sources = <<>>
          /\ Len(native.dependencies) = 1
          /\ ClosureTestFiles(builder, project.targets[native.dependencies[1]].target) # {}
  /\ lookups = [injection |-> 0, wiring |-> Cardinality(ModuleKeys)]

-----------------------------------------------------------------------------
\* the paths of the sources that were added to a native target, in the order
\* they were added
PathsAdded(native) == [k \in 1..Len(native.sources) |-> native.sources[k].path]

(* C18: under the legacy build system, when AddTargetsFromBuilder has       *)
(* succeeded, the sources of the native target of a UI-test module are the *)
(* test files of the closure of the module target itself, those of a       *)
(* unit-test module the test files of the closure of its host application  *)
(* (the application its dependency points at); they were added in strictly *)
(* ascending path order, each with the flag that keeps it from being       *)
(* compiled, and no other native target has a source.                      *)
C18_InjectedFiles ==
  (TargetsAdded /\ options.build_system = "kLegacy") =>
    \A i \in 1..Len(project.targets) :
      LET native == project.targets[i]
          t == native.target
          from == IF IsXCUITestModuleTarget(builder[t]) THEN {t}
                  ELSE IF IsXCTestModuleTarget(builder[t])
                  THEN {project.targets[native.dependencies[k]].target :
                          k \in 1..Len(native.dependencies)}
                  ELSE {}
          files == UNION {ClosureTestFiles(builder, h) : h \in from}
      IN /\ Cardinality(from) <= 1
         /\ (IsModule(builder[t]) <=> from # {})
         /\ Range(PathsAdded(native)) = {RebasePath(f) : f \in files}
         /\ Len(native.sources) = Cardinality(files)
         /\ \A k \in 1..(Len(native.sources) - 1) :
              StrLess(native.sources[k].path, native.sources[k + 1].path)
         /\ \A k \in 1..Len(native.sources) : native.sources[k].flag = "HELP"

\* a unit-test module that got a file of its host, and beside it a UI-test
\* module that got two files or more of its own closure
C18_Witness ==
  /\ TargetsAdded
  /\ options.build_system = "kLegacy"
  /\ \E i, j \in 1..Len(project.targets) :
       /\ IsXCTestModuleTarget(builder[project.targets[i].target])
       /\ Len(project.targets[i].sources) >= 1
       /\ IsXCUITestModuleTarget(builder[project.targets[j].target])
       /\ Len(project.targets[j].sources) >= 2

-----------------------------------------------------------------------------
\* the error of AddBinaryTarget names the toolchain and the target |t|
NamesToolchainAndTarget(t) ==
  /\ err.message = "link tool not defined"
  /\ builder[t].label.toolchain \in err.mentions
  /\ GetUserVisibleName(builder[t].label) \in err.mentions

(* C19, as claimed: every Executable target of the classifier's list whose *)
(* toolchain defines no link tool makes generation fail with an error that *)
(* names the toolchain and the target.                                     *)
C19_NoLinkToolFails ==
  TargetsReturned =>
    \A t \in SurvivingExecutables :
      ~builder[t].has_tool => pc = "failed" /\ NamesToolchainAndTarget(t)

\* the Executable targets of the classifier's list that have no output_dir
\* of their own and whose toolchain defines no link tool
ExecutablesWithoutOutput ==
  { t \in SurvivingExecutables : ~builder[t].has_tool /\ builder[t].output_dir = <<>> }

(* C19, amended: when the target_os override is neither "ios" nor "tvos",  *)
(* an Executable target of the classifier's list that has no output_dir of *)
(* its own and whose toolchain defines no link tool makes generation fail, *)
(* with an error that names the toolchain and one such target; generation  *)
(* fails with that error in no other case.                                 *)
C19_NoLinkToolFailsWithoutOutputDir ==
  TargetsReturned =>
    /\ (~IsMobileOverride /\ ExecutablesWithoutOutput # {}) =>
         /\ pc = "failed"
         /\ \E t \in ExecutablesWithoutOutput : NamesToolchainAndTarget(t)
    /\ err.message = "link tool not defined" =>
         ~IsMobileOverride /\ ExecutablesWithoutOutput # {}

\* generation stopped on an executable without link tool, after an
\* executable without link tool but with an output_dir was emitted
C19_Witness ==
  /\ pc = "failed"
  /\ \E t \in ExecutablesWithoutOutput : NamesToolchainAndTarget(t)
  /\ \E t \in Emitted :
       builder[t].output_type = "EXECUTABLE" /\ ~builder[t].has_tool

-----------------------------------------------------------------------------
(* C20: for the bundle targets that were emitted and the host name of any  *)
(* emitted module target, FindApplicationTargetByName gives the same       *)
(* outcome (the same application target, or the same error) under every    *)
(* iteration order of the map keyed by target pointer.                     *)
C20_LookupIndependentOfMapOrder ==
  TargetsReturned =>
    \A m \in ModuleKeys :
      \A keys \in Perms(Range(bundle_targets)) :
        FindApplicationTargetByName(
          builder, m, builder[m].xcode_test_application_name, keys)
        = FindApplicationTargetByName(
            builder, m, builder[m].xcode_test_application_name, bundle_targets)

====
